---- MODULE Spec2Model ----
(***************************************************************************)
(* Task store of simple-todo-app and its request handlers: createTask,     *)
(* getTask, getTasks, updateTask, deleteTask.  The store is the `tasks`    *)
(* table.  getTask, getTasks and updateTask each issue one statement       *)
(* against it and map the rows they get back to a result or to a thrown    *)
(* Error; deleteTask is the placeholder the repository holds for it.       *)
(* createTask is not among the sources and follows the specification       *)
(* (section 4.1) and its tests.                                            *)
(*                                                                         *)
(* Strings that are only stored and compared (title, description text) are *)
(* TLA+ strings.  Error messages are sequences of pieces so that "the      *)
(* message contains the id" is a sub-sequence test on the decimal digits   *)
(* the template literal produces.                                          *)
(***************************************************************************)
EXTENDS Integers, Sequences, FiniteSets, TLC

\* ---------------------------------------------------------------- bounds
MaxTasks == 2          \* rows ever inserted (serial ids 1..MaxTasks)
MaxTime  == 1          \* the clock runs 0..MaxTime

\* ------------------------------------------------------------ value sets
Titles    == {"a"}           \* titles createTask is given (non-empty)
DescTexts == {"x"}

\* description column / field: null or a text
Null      == <<>>
Text(s)   == <<s>>
DescVals  == {Null} \cup {Text(s) : s \in DescTexts}

\* an optional input field: undefined (absent) or a supplied value
None      == <<>>
Some(v)   == <<v>>
Opt(S)    == {None} \cup {Some(v) : v \in S}

\* ids a caller may pass to getTask: ids the serial assigns, 0, a negative
\* id, and an id the serial never reaches
BigId     == 99999
LookupIds == (-1 .. MaxTasks) \cup {BigId}

\* ids a caller may pass to updateTask / deleteTask: the ids the serial
\* assigns, each of them missing from the table until its row is inserted
TargetIds == 1 .. MaxTasks

VARIABLES
    store,      \* the tasks table: sequence of rows in insertion order
    nextId,     \* the serial sequence behind tasks.id
    now,        \* the clock read by new Date() / defaultNow()
    last,       \* the last handler call: op, input, outcome, result, message
    before,     \* history: the rows the last call's id matched before the call
    written,    \* history: per id, the record create/update last returned
    tasks,        \* client: useState<Task[]>, the local task list
    pending,      \* client: the calls awaiting their promise, each with the
                  \* values its continuation closed over
    editingTask,  \* client: useState<Task | null>, the task in the dialog
    editTaskForm, \* client: useState<UpdateTaskInput>, the edit form
    filter,       \* client: useState<'all' | 'active' | 'completed'>
    event         \* history: what the client step taken last was

clientVars == <<tasks, pending, editingTask, editTaskForm, filter, event>>

serverVars == <<store, nextId, now, last, before, written>>

vars == <<serverVars, clientVars>>

\* ------------------------------------------------------------- helpers
StoredIds(st) == {st[i].id : i \in 1..Len(st)}

\* WHERE id = :id
WhereId(st, id) == SelectSeq(st, LAMBDA r : r.id = id)

\* String(n) as the template literal `${input.id}` renders an integer
Digit(d) == <<"0", "1", "2", "3", "4", "5", "6", "7", "8", "9">>[d + 1]

RECURSIVE NatToStr(_)
NatToStr(n) == IF n < 10 THEN <<Digit(n)>>
               ELSE NatToStr(n \div 10) \o <<Digit(n % 10)>>

IntToStr(n) == IF n < 0 THEN <<"-">> \o NatToStr(-n) ELSE NatToStr(n)

\* msg contains sub as a contiguous piece
Contains(msg, sub) ==
    \E i \in 1..(Len(msg) - Len(sub) + 1) :
        SubSeq(msg, i, i + Len(sub) - 1) = sub

NoInput == [none |-> TRUE]

\* a call that resolved with rows / a call that threw Error(msg)
Ok(op, input, rows) ==
    [op |-> op, input |-> input, outcome |-> "ok", result |-> rows,
     message |-> <<>>]

Thrown(op, input, msg) ==
    [op |-> op, input |-> input, outcome |-> "NotFound", result |-> <<>>,
     message |-> msg]

\* ---------------------------------------------------------------- Init
Init ==
    /\ store = <<>>
    /\ nextId = 1
    /\ now = 0
    /\ last = [op |-> "none", input |-> NoInput, outcome |-> "ok",
               result |-> <<>>, message |-> <<>>]
    /\ before = <<>>
    /\ written = <<>>
    /\ tasks = <<>>
    /\ pending = <<>>
    /\ editingTask = None
    /\ editTaskForm = [id |-> 0, title |-> "", description |-> Null,
                       completed |-> FALSE]
    /\ filter = "all"
    /\ event = "other"

\* the clock advances between calls (or not: two calls may read one instant)
Tick ==
    /\ now < MaxTime
    /\ now' = now + 1
    /\ UNCHANGED <<store, nextId, last, before, written, clientVars>>

\* ---------------------------------------------------------- createTask
\* INSERT ... RETURNING: id from the serial, completed false,
\* created_at = updated_at = now
NewRow(id, input, t) ==
    [id |-> id, title |-> input.title, description |-> input.description,
     completed |-> FALSE, created_at |-> t, updated_at |-> t]

CreateTask ==
    \E title \in Titles, description \in DescVals :
        LET input == [title |-> title, description |-> description]
            row   == NewRow(nextId, input, now)
        IN  /\ nextId <= MaxTasks
            /\ store' = Append(store, row)
            /\ nextId' = nextId + 1
            /\ last' = Ok("createTask", input, <<row>>)
            /\ before' = <<>>
            /\ written' = Append(written, row)
            /\ UNCHANGED <<now, clientVars>>

\* ------------------------------------------------------------- getTask
\* variant: the message names no id
getTaskMessage_NoId(id) == <<"Task not found">>

getTaskMessage(id) == <<"Task with ID ">> \o IntToStr(id) \o <<" not found">>

\* variant: no WHERE clause, the first row of the table is returned
getTask_First(st, input) ==
    IF Len(st) = 0
    THEN Thrown("getTask", input, getTaskMessage(input.id))
    ELSE Ok("getTask", input, <<st[1]>>)

\* variant: no length check, result[0] is returned whatever it is
getTask_NoCheck(st, input) == Ok("getTask", input, WhereId(st, input.id))

getTask(st, input) ==
    LET result == WhereId(st, input.id)
    IN  IF Len(result) = 0
        THEN Thrown("getTask", input, getTaskMessage(input.id))
        ELSE Ok("getTask", input, <<result[1]>>)

GetTask ==
    \E id \in LookupIds :
        /\ last' = getTask(store, [id |-> id])
        /\ before' = WhereId(store, id)
        /\ UNCHANGED <<store, nextId, now, written, clientVars>>

\* ------------------------------------------------------------ getTasks
\* ORDER BY created_at DESC: the rows, newest first.  The statement names no
\* second sort key, so rows with equal created_at come back in whatever
\* order the store produces them.
\* variant: ascending order
OrderedByCreatedAtDesc_Asc(rows) ==
    \A i \in 1..(Len(rows) - 1) : rows[i].created_at <= rows[i + 1].created_at

OrderedByCreatedAtDesc(rows) ==
    \A i \in 1..(Len(rows) - 1) : rows[i].created_at >= rows[i + 1].created_at

\* variant: one row per created_at value (the first inserted), newest first
selectOrderBy_DistinctCreatedAt(st) ==
    LET keep == SelectSeq(st, LAMBDA r :
                    \A i \in 1..Len(st) :
                        st[i].created_at = r.created_at => st[i].id >= r.id)
    IN  {rows \in {[i \in 1..Len(keep) |-> keep[p[i]]] :
                        p \in Permutations(1..Len(keep))} :
            OrderedByCreatedAtDesc(rows)}

\* SELECT * FROM tasks ORDER BY created_at DESC: the set of possible results
selectOrderBy(st) ==
    {rows \in {[i \in 1..Len(st) |-> st[p[i]]] : p \in Permutations(1..Len(st))} :
        OrderedByCreatedAtDesc(rows)}

getTasks(st) == {Ok("getTasks", NoInput, rows) : rows \in selectOrderBy(st)}

GetTasks ==
    /\ last' \in getTasks(store)
    /\ before' = <<>>
    /\ UNCHANGED <<store, nextId, now, written, clientVars>>

\* ---------------------------------------------------------- updateTask
\* UpdateTaskInput.title is an optional string: the handler is handed any
\* string, the empty one included
UpdateTitles == Titles \cup {""}

UpdateInputs ==
    [id : TargetIds, title : Opt(UpdateTitles), description : Opt(DescVals),
     completed : Opt(BOOLEAN)]

\* variant: updated_at is not put into the update object
updateData_NoTimestamp(input, t) ==
    [updated_at  |-> None,
     title       |-> IF input.title /= None THEN input.title ELSE None,
     description |-> IF input.description /= None THEN input.description ELSE None,
     completed   |-> IF input.completed /= None THEN input.completed ELSE None]

\* variant: new Date(0) instead of new Date()
updateData_Epoch(input, t) ==
    [updated_at  |-> Some(0),
     title       |-> IF input.title /= None THEN input.title ELSE None,
     description |-> IF input.description /= None THEN input.description ELSE None,
     completed   |-> IF input.completed /= None THEN input.completed ELSE None]

\* variant: truthiness tests (if (input.x)) instead of !== undefined
updateData_Truthy(input, t) ==
    [updated_at  |-> Some(t),
     title       |-> IF input.title /= None THEN input.title ELSE None,
     description |-> IF input.description /= None /\ input.description /= Some(Null)
                     THEN input.description ELSE None,
     completed   |-> IF input.completed = Some(TRUE) THEN input.completed ELSE None]

\* variant: a full replacement; an omitted description is written as null
updateData_Replace(input, t) ==
    [updated_at  |-> Some(t),
     title       |-> IF input.title /= None THEN input.title ELSE None,
     description |-> IF input.description /= None THEN input.description
                     ELSE Some(Null),
     completed   |-> IF input.completed /= None THEN input.completed ELSE None]

\* the update object: updated_at always, the other columns only when the
\* input field is not undefined (null is a supplied value)
updateData(input, t) ==
    [updated_at  |-> Some(t),
     title       |-> IF input.title /= None THEN input.title ELSE None,
     description |-> IF input.description /= None THEN input.description ELSE None,
     completed   |-> IF input.completed /= None THEN input.completed ELSE None]

\* variant: the row is written back under a fresh id (delete and re-insert)
SetColumns_NewId(row, data) ==
    [id          |-> row.id + 1,
     title       |-> IF data.title /= None THEN data.title[1] ELSE row.title,
     description |-> IF data.description /= None THEN data.description[1]
                     ELSE row.description,
     completed   |-> IF data.completed /= None THEN data.completed[1]
                     ELSE row.completed,
     created_at  |-> row.created_at,
     updated_at  |-> IF data.updated_at /= None THEN data.updated_at[1]
                     ELSE row.updated_at]

\* variant: both timestamp columns are set to the new time
SetColumns_TouchCreatedAt(row, data) ==
    [id          |-> row.id,
     title       |-> IF data.title /= None THEN data.title[1] ELSE row.title,
     description |-> IF data.description /= None THEN data.description[1]
                     ELSE row.description,
     completed   |-> IF data.completed /= None THEN data.completed[1]
                     ELSE row.completed,
     created_at  |-> IF data.updated_at /= None THEN data.updated_at[1]
                     ELSE row.created_at,
     updated_at  |-> IF data.updated_at /= None THEN data.updated_at[1]
                     ELSE row.updated_at]

\* variant: a completed task stays completed (completed OR new value)
SetColumns_CompletedSticks(row, data) ==
    [id          |-> row.id,
     title       |-> IF data.title /= None THEN data.title[1] ELSE row.title,
     description |-> IF data.description /= None THEN data.description[1]
                     ELSE row.description,
     completed   |-> IF data.completed /= None
                     THEN (row.completed \/ data.completed[1])
                     ELSE row.completed,
     created_at  |-> row.created_at,
     updated_at  |-> IF data.updated_at /= None THEN data.updated_at[1]
                     ELSE row.updated_at]

\* variant: a null description keeps the stored one (COALESCE(new, old))
SetColumns_NullKeeps(row, data) ==
    [id          |-> row.id,
     title       |-> IF data.title /= None THEN data.title[1] ELSE row.title,
     description |-> IF data.description /= None /\ data.description[1] /= Null
                     THEN data.description[1] ELSE row.description,
     completed   |-> IF data.completed /= None THEN data.completed[1]
                     ELSE row.completed,
     created_at  |-> row.created_at,
     updated_at  |-> IF data.updated_at /= None THEN data.updated_at[1]
                     ELSE row.updated_at]

\* SET <columns of data>: a column named in data takes its value
SetColumns(row, data) ==
    [id          |-> row.id,
     title       |-> IF data.title /= None THEN data.title[1] ELSE row.title,
     description |-> IF data.description /= None THEN data.description[1]
                     ELSE row.description,
     completed   |-> IF data.completed /= None THEN data.completed[1]
                     ELSE row.completed,
     created_at  |-> row.created_at,
     updated_at  |-> IF data.updated_at /= None THEN data.updated_at[1]
                     ELSE row.updated_at]

\* variant: UPDATE without the WHERE clause; RETURNING still gives the row
\* asked for first
UpdateWhereId_NoWhere(st, id, data) ==
    [i \in 1..Len(st) |-> IF id \in StoredIds(st) THEN SetColumns(st[i], data)
                           ELSE st[i]]

\* variant: an upsert; with no row under id the statement inserts one
UpdateWhereId_Upsert(st, id, data) ==
    IF id \in StoredIds(st)
    THEN [i \in 1..Len(st) |-> IF st[i].id = id THEN SetColumns(st[i], data)
                                ELSE st[i]]
    ELSE Append(st, SetColumns([id |-> id, title |-> "", description |-> Null,
                                completed |-> FALSE, created_at |-> 0,
                                updated_at |-> 0], data))

\* UPDATE tasks SET ... WHERE id = :id
UpdateWhereId(st, id, data) ==
    [i \in 1..Len(st) |-> IF st[i].id = id THEN SetColumns(st[i], data) ELSE st[i]]

updateTaskMessage(id) == <<"Task with id ">> \o IntToStr(id) \o <<" not found">>

\* variant: no length check, result[0] is returned whatever it is
updateTaskResult_NoCheck(input, result) == Ok("updateTask", input, result)

\* the call's outcome from the rows RETURNING gave back
updateTaskResult(input, result) ==
    IF Len(result) = 0
    THEN Thrown("updateTask", input, updateTaskMessage(input.id))
    ELSE Ok("updateTask", input, <<result[1]>>)

updateTask(st, input, t) ==
    LET newStore == UpdateWhereId(st, input.id, updateData(input, t))
        result   == WhereId(newStore, input.id)
    IN  [store |-> newStore, call |-> updateTaskResult(input, result)]

\* written[id] after a call that returned rows
Record(w, call) ==
    IF call.outcome = "ok" /\ Len(call.result) > 0
    THEN [i \in 1..Len(w) |-> IF w[i].id = call.result[1].id
                               THEN call.result[1] ELSE w[i]]
    ELSE w

UpdateTask ==
    \E input \in UpdateInputs :
        LET r == updateTask(store, input, now)
        IN  /\ store' = r.store
            /\ last' = r.call
            /\ before' = WhereId(store, input.id)
            /\ written' = Record(written, r.call)
            /\ UNCHANGED <<nextId, now, clientVars>>

\* ---------------------------------------------------------- deleteTask
\* The handler is a placeholder: it issues no statement and resolves with
\* { success: true } for every id.
deleteTask(st, input) ==
    [store |-> st,
     call  |-> Ok("deleteTask", input, <<[success |-> TRUE]>>)]

DeleteTask ==
    \E id \in TargetIds :
        LET r == deleteTask(store, [id |-> id])
        IN  /\ store' = r.store
            /\ last' = r.call
            /\ before' = WhereId(store, id)
            /\ UNCHANGED <<nextId, now, written, clientVars>>

Next ==
    \/ Tick
    \/ CreateTask
    \/ GetTask
    \/ GetTasks
    \/ UpdateTask
    \/ DeleteTask

Spec == Init /\ [][Next]_vars

\* ------------------------------------------- deleteTask that removes
\* The delete of the specification (section 4.5): it removes the row stored
\* under the id and reports success, and throws naming the id when there is
\* none.  The handler in the repository is the placeholder above; this one
\* gives updateTask rows that disappear between its calls.
DeleteWhereId(st, id) == SelectSeq(st, LAMBDA r : r.id /= id)

deleteTaskMessage(id) == <<"Task with ID ">> \o IntToStr(id) \o <<" not found">>

deleteTaskRemoving(st, input) ==
    IF input.id \in StoredIds(st)
    THEN [store |-> DeleteWhereId(st, input.id),
          call  |-> Ok("deleteTask", input, <<[success |-> TRUE]>>)]
    ELSE [store |-> st,
          call  |-> Thrown("deleteTask", input, deleteTaskMessage(input.id))]

DeleteTaskRemoving ==
    \E id \in TargetIds :
        LET r == deleteTaskRemoving(store, [id |-> id])
        IN  /\ store' = r.store
            /\ last' = r.call
            /\ before' = WhereId(store, id)
            /\ UNCHANGED <<nextId, now, written, clientVars>>

NextRemoval ==
    \/ Tick
    \/ CreateTask
    \/ GetTask
    \/ GetTasks
    \/ UpdateTask
    \/ DeleteTaskRemoving

SpecRemoval == Init /\ [][NextRemoval]_vars

\* ======================================================================
\* The client (App.tsx)
\* ======================================================================
\* The component's task list, edit dialog and filter, and the calls it has
\* sent and not yet seen settle.  A call is sent by a handler, served by the
\* server (or lost on the way), and settled when the handler's continuation
\* after the await runs with the values it closed over.  isLoading,
\* isCreateDialogOpen and newTaskForm guard nothing in the handlers beyond the
\* title test, so what the user typed is an input of handleCreateTask.

\* calls in flight at once, and tasks created while the edit dialog and
\* failing calls are in play
MaxPending == 2
MaxClientTasks == 1

\* what can stand in the title field of the create form, and in that of the
\* edit form after typing
TypedTitles == {"", " ", "a"}
TypedForms == {[title |-> "b", description |-> Text("x")],
               [title |-> "", description |-> Null]}

\* String.prototype.trim on those titles
Trim(s) == IF s = " " THEN "" ELSE s

Filters == {"all", "active", "completed"}

\* tasks.filter(...) by the filter chosen
filteredTasks_ActiveAll(ts, f) ==
    SelectSeq(ts, LAMBDA t : IF f = "completed" THEN t.completed ELSE TRUE)

filteredTasks(ts, f) ==
    SelectSeq(ts, LAMBDA t : IF f = "active" THEN ~t.completed
                             ELSE IF f = "completed" THEN t.completed
                             ELSE TRUE)

completedCount(ts) == Len(SelectSeq(ts, LAMBDA t : t.completed))

activeCount(ts) == Len(ts) - completedCount(ts)

\* a call on its way: the handler that sent it, the input sent, the id its
\* continuation closed over, and how far it got
Rpc(kind, input, id) ==
    [kind |-> kind, input |-> input, id |-> id, state |-> "sent",
     result |-> <<>>]

RemoveAt(seq, i) == SubSeq(seq, 1, i - 1) \o SubSeq(seq, i + 1, Len(seq))

\* the list setTasks leaves after the await of call p has settled
\* variant: the catch is missing, the update of the list runs on rejection too
Continuation_NoCatch(ts, p) ==
    IF p.kind = "handleCreateTask"
    THEN (IF p.state = "resolved" THEN p.result ELSE <<>>) \o ts
    ELSE IF p.kind = "toggleTaskCompletion"
    THEN [i \in 1..Len(ts) |->
            IF ts[i].id = p.id
            THEN [ts[i] EXCEPT !.completed = ~ts[i].completed] ELSE ts[i]]
    ELSE IF p.kind = "handleUpdateTask"
    THEN [i \in 1..Len(ts) |->
            IF ts[i].id = p.id
            THEN [ts[i] EXCEPT !.title = p.input.title[1],
                               !.description = p.input.description[1]]
            ELSE ts[i]]
    ELSE SelectSeq(ts, LAMBDA t : t.id /= p.id)

Continuation(ts, p) ==
    IF p.state = "rejected"
    THEN ts
    ELSE IF p.kind = "handleCreateTask"
    THEN p.result \o ts
    ELSE IF p.kind = "toggleTaskCompletion"
    THEN [i \in 1..Len(ts) |->
            IF ts[i].id = p.id
            THEN [ts[i] EXCEPT !.completed = ~ts[i].completed] ELSE ts[i]]
    ELSE IF p.kind = "handleUpdateTask"
    THEN [i \in 1..Len(ts) |->
            IF ts[i].id = p.id
            THEN [ts[i] EXCEPT !.title = p.input.title[1],
                               !.description = p.input.description[1]]
            ELSE ts[i]]
    ELSE SelectSeq(ts, LAMBDA t : t.id /= p.id)

\* ---- handlers: the part before the await
HandleCreateTask ==
    \E title \in TypedTitles, description \in {Null} :
        IF Trim(title) = ""
        THEN /\ event' = "returned"
             /\ UNCHANGED <<tasks, pending, editingTask, editTaskForm, filter,
                            serverVars>>
        ELSE /\ Len(pending) < MaxPending
             /\ pending' = Append(pending,
                    Rpc("handleCreateTask",
                        [title |-> title, description |-> description], 0))
             /\ event' = "other"
             /\ UNCHANGED <<tasks, editingTask, editTaskForm, filter, serverVars>>

ToggleTaskCompletion ==
    \E i \in 1..Len(filteredTasks(tasks, filter)) :
        LET task == filteredTasks(tasks, filter)[i]
        IN  /\ Len(pending) < MaxPending
            /\ pending' = Append(pending,
                   Rpc("toggleTaskCompletion",
                       [id |-> task.id, title |-> None, description |-> None,
                        completed |-> Some(~task.completed)], task.id))
            /\ event' = "other"
            /\ UNCHANGED <<tasks, editingTask, editTaskForm, filter, serverVars>>

StartEditing ==
    \E i \in 1..Len(filteredTasks(tasks, filter)) :
        LET task == filteredTasks(tasks, filter)[i]
        IN  /\ editingTask' = Some(task.id)
            /\ editTaskForm' = [id |-> task.id, title |-> task.title,
                                description |-> task.description,
                                completed |-> task.completed]
            /\ event' = "other"
            /\ UNCHANGED <<tasks, pending, filter, serverVars>>

\* typing in the edit dialog, and closing it
SetEditTaskForm ==
    /\ editingTask /= None
    /\ \E typed \in TypedForms :
           editTaskForm' = [editTaskForm EXCEPT !.title = typed.title,
                                                !.description = typed.description]
    /\ event' = "other"
    /\ UNCHANGED <<tasks, pending, editingTask, filter, serverVars>>

CloseDialog ==
    /\ editingTask /= None
    /\ editingTask' = None
    /\ event' = "other"
    /\ UNCHANGED <<tasks, pending, editTaskForm, filter, serverVars>>

HandleUpdateTask ==
    /\ editingTask /= None
    /\ IF Trim(editTaskForm.title) = ""
       THEN /\ event' = "returned"
            /\ UNCHANGED <<tasks, pending, editingTask, editTaskForm, filter,
                            serverVars>>
       ELSE /\ Len(pending) < MaxPending
            /\ pending' = Append(pending,
                   Rpc("handleUpdateTask",
                       [id          |-> editTaskForm.id,
                        title       |-> Some(editTaskForm.title),
                        description |-> Some(editTaskForm.description),
                        completed   |-> Some(editTaskForm.completed)],
                       editingTask[1]))
            /\ event' = "other"
            /\ UNCHANGED <<tasks, editingTask, editTaskForm, filter, serverVars>>

HandleDeleteTask ==
    \E i \in 1..Len(filteredTasks(tasks, filter)) :
        LET task == filteredTasks(tasks, filter)[i]
        IN  /\ Len(pending) < MaxPending
            /\ pending' = Append(pending,
                   Rpc("handleDeleteTask", [id |-> task.id], task.id))
            /\ event' = "other"
            /\ UNCHANGED <<tasks, editingTask, editTaskForm, filter, serverVars>>

SetFilter ==
    \E f \in Filters :
        /\ filter' = f
        /\ event' = "other"
        /\ UNCHANGED <<tasks, pending, editingTask, editTaskForm, serverVars>>

\* ---- the server serves a call that was sent
\* the store and the response after the handler behind call p has run
Served(st, n, p, t) ==
    IF p.kind = "handleCreateTask"
    THEN LET row == NewRow(n, p.input, t)
         IN  [store |-> Append(st, row), nextId |-> n + 1,
              state |-> "resolved", result |-> <<row>>]
    ELSE IF p.kind = "handleDeleteTask"
    THEN LET r == deleteTask(st, p.input)
         IN  [store |-> r.store, nextId |-> n,
              state |-> "resolved", result |-> r.call.result]
    ELSE LET r == updateTask(st, p.input, t)
         IN  [store |-> r.store, nextId |-> n,
              state |-> IF r.call.outcome = "ok" THEN "resolved" ELSE "rejected",
              result |-> r.call.result]

ServeUpTo(n) ==
    \E i \in 1..Len(pending) :
        LET p == pending[i]
            r == Served(store, nextId, p, now)
        IN  /\ p.state = "sent"
            /\ p.kind = "handleCreateTask" => nextId <= n
            /\ store' = r.store
            /\ nextId' = r.nextId
            /\ pending' = [pending EXCEPT ![i] =
                              [p EXCEPT !.state = r.state, !.result = r.result]]
            /\ event' = "other"
            /\ UNCHANGED <<now, last, before, written, tasks, editingTask,
                           editTaskForm, filter>>

\* ---- handlers: the part after the await
\* the promise resolves with the response of a call that was served
Resolve ==
    \E i \in 1..Len(pending) :
        LET p == pending[i]
        IN  /\ p.state = "resolved"
            /\ tasks' = Continuation(tasks, p)
            /\ editingTask' = IF p.kind = "handleUpdateTask" THEN None
                              ELSE editingTask
            /\ pending' = RemoveAt(pending, i)
            /\ event' = "then"
            /\ UNCHANGED <<serverVars, editTaskForm, filter>>

\* the promise rejects: the call did not reach the server, or the handler
\* behind it threw
Reject ==
    \E i \in 1..Len(pending) :
        LET p == [pending[i] EXCEPT !.state = "rejected"]
        IN  /\ pending[i].state /= "resolved"
            /\ tasks' = Continuation(tasks, p)
            /\ pending' = RemoveAt(pending, i)
            /\ event' = "catch"
            /\ UNCHANGED <<serverVars, editingTask, editTaskForm, filter>>

ServeRpc == ServeUpTo(MaxClientTasks)

NextClient ==
    \/ HandleCreateTask
    \/ ToggleTaskCompletion
    \/ StartEditing
    \/ SetEditTaskForm
    \/ CloseDialog
    \/ HandleUpdateTask
    \/ HandleDeleteTask
    \/ SetFilter
    \/ ServeRpc
    \/ Resolve
    \/ Reject

SpecClient == Init /\ [][NextClient]_vars

\* The list, its filter, the checkboxes and the delete buttons alone, with as
\* many tasks as the server side has: no edit dialog, no failing call.
ServeRpcAll == ServeUpTo(MaxTasks)

NextFilter ==
    \/ HandleCreateTask
    \/ ToggleTaskCompletion
    \/ HandleDeleteTask
    \/ SetFilter
    \/ ServeRpcAll
    \/ Resolve

SpecFilter == Init /\ [][NextFilter]_vars

\* ======================================================================
\* Properties
\* ======================================================================

\* the row stored under id (the callers establish that there is one)
RowOf(st, id) == WhereId(st, id)[1]

UpdateOk == last.op = "updateTask" /\ last.outcome = "ok"

\* this step is a call of the handler op (the clock step is the only step
\* that is no call, and the only one that moves the clock)
Called(op) == now' = now /\ last'.op = op

\* C1: updateTask applies a partial update: every one of title, description
\* and completed that the input supplies is stored as supplied, every one it
\* omits keeps the value stored before the call, and the record returned is
\* the full row as stored after the call.
C1_PartialUpdate ==
    UpdateOk =>
        /\ Len(before) = 1
        /\ Len(WhereId(store, last.input.id)) = 1
        /\ Len(last.result) = 1
        /\ LET in  == last.input
               old == before[1]
               new == RowOf(store, in.id)
           IN  /\ new.title = IF in.title /= None THEN in.title[1] ELSE old.title
               /\ new.description = IF in.description /= None
                                    THEN in.description[1] ELSE old.description
               /\ new.completed = IF in.completed /= None
                                  THEN in.completed[1] ELSE old.completed
               /\ last.result[1] = new
               /\ DOMAIN new = {"id", "title", "description", "completed",
                                "created_at", "updated_at"}

\* a call that supplied title, changed it, and omitted description and
\* completed on a task whose description is a text
C1_Witness ==
    /\ UpdateOk
    /\ Len(before) = 1
    /\ last.input.title /= None
    /\ last.input.description = None
    /\ last.input.completed = None
    /\ before[1].title /= last.result[1].title
    /\ before[1].description /= Null
    /\ Len(store) = 2

\* C2: description is tri-state in updateTask: {id, description: null} stores
\* null and leaves title and completed as they were; an input without
\* description leaves the stored description (null or text) as it was; an
\* input with a text stores that text.
C2_DescriptionTriState ==
    (UpdateOk /\ Len(before) = 1 /\ Len(WhereId(store, last.input.id)) = 1) =>
        LET in  == last.input
            old == before[1]
            new == RowOf(store, in.id)
        IN  /\ in.description = Some(Null) => new.description = Null
            /\ (in.description = Some(Null) /\ in.title = None
                    /\ in.completed = None)
                  => (new.title = old.title /\ new.completed = old.completed)
            /\ in.description = None => new.description = old.description
            /\ \A s \in DescTexts :
                  in.description = Some(Text(s)) => new.description = Text(s)

\* {id, description: null} on a task whose description was a text
C2_Witness ==
    /\ UpdateOk
    /\ Len(before) = 1
    /\ last.input.description = Some(Null)
    /\ last.input.title = None
    /\ last.input.completed = None
    /\ before[1].description /= Null
    /\ RowOf(store, last.input.id).description = Null
    /\ before[1].completed = TRUE

\* C3: updateTask on an id that matches no stored row throws an Error whose
\* message contains that id, returns no record, and leaves every row of the
\* store as it was (none created, none modified).
C3_UpdateNotFound ==
    [][(Called("updateTask") /\ last'.input.id \notin StoredIds(store)) =>
          /\ last'.outcome = "NotFound"
          /\ Contains(last'.message, IntToStr(last'.input.id))
          /\ last'.result = <<>>
          /\ store' = store]_vars

\* updateTask threw for the id 2 while only task 1 was stored
C3_Witness ==
    /\ last.op = "updateTask"
    /\ last.outcome = "NotFound"
    /\ last.input.id = 2
    /\ last.input.title /= None
    /\ last.input.description = Some(Null)
    /\ Len(store) = 1

\* C4: deleteTask on an id that matches no stored row throws an Error whose
\* message contains that id; it never reports success for a missing id, and
\* the store is unchanged.
C4_DeleteNotFound ==
    [][(Called("deleteTask") /\ last'.input.id \notin StoredIds(store)) =>
          /\ last'.outcome = "NotFound"
          /\ Contains(last'.message, IntToStr(last'.input.id))
          /\ last'.result = <<>>
          /\ store' = store]_vars

\* C5: deleteTask on an existing id reports {success: true} and removes
\* exactly that row: every other row is stored afterwards as it was, and the
\* store holds one row fewer.
C5_DeleteRemovesExactlyOne ==
    [][(Called("deleteTask") /\ last'.input.id \in StoredIds(store)) =>
          /\ last'.outcome = "ok"
          /\ last'.result = <<[success |-> TRUE]>>
          /\ last'.input.id \notin StoredIds(store')
          /\ Len(store') = Len(store) - 1
          /\ \A i \in 1..Len(store) :
                store[i].id /= last'.input.id =>
                    \E j \in 1..Len(store') : store'[j] = store[i]]_vars

\* C6: getTask on an id that matches no stored row throws an Error whose
\* message contains the requested id, for every id including 0 and negative
\* ids; it returns no record for an id that is not in the store.
C6_GetTaskNotFound ==
    (last.op = "getTask" /\ last.input.id \notin StoredIds(store)) =>
        /\ last.outcome = "NotFound"
        /\ Contains(last.message, IntToStr(last.input.id))
        /\ last.result = <<>>

\* getTask threw for the id -1 while two tasks were stored
C6_Witness ==
    /\ last.op = "getTask"
    /\ last.outcome = "NotFound"
    /\ last.input.id = -1
    /\ Len(store) = 2

\* C7: for every id in the store, getTask returns the record with exactly the
\* field values createTask or updateTask last returned for that id.
C7_GetTaskReturnsLastWritten ==
    (last.op = "getTask" /\ last.input.id \in StoredIds(store)) =>
        /\ last.outcome = "ok"
        /\ Len(WhereId(written, last.input.id)) = 1
        /\ last.result = <<RowOf(written, last.input.id)>>

\* getTask returned the second task after an update had cleared its
\* description and completed it at a later instant
C7_Witness ==
    /\ last.op = "getTask"
    /\ last.outcome = "ok"
    /\ last.input.id = 2
    /\ last.result[1].description = Null
    /\ last.result[1].completed = TRUE
    /\ last.result[1].updated_at > last.result[1].created_at

\* the last call was a deleteTask that reported success
DeleteOk == last.op = "deleteTask" /\ last.outcome = "ok"

\* C8: after deleteTask(id) has reported success the removal is visible to
\* the reads that follow: getTask(id) throws an Error naming that id and
\* getTasks returns no task with that id.  Stated for the read that follows
\* the delete, the first of "every later read".
C8_DeleteIsVisible ==
    [][/\ (DeleteOk /\ Called("getTask") /\ last'.input.id = last.input.id) =>
            /\ last'.outcome = "NotFound"
            /\ Contains(last'.message, IntToStr(last'.input.id))
       /\ (DeleteOk /\ Called("getTasks")) =>
            \A i \in 1..Len(last'.result) :
                last'.result[i].id /= last.input.id]_vars

\* C9: getTasks returns every stored task exactly once (N stored tasks give a
\* result of N records, an empty store an empty sequence and no error), with
\* created_at non-increasing along the result.
C9_GetTasksAllOrdered ==
    last.op = "getTasks" =>
        /\ last.outcome = "ok"
        /\ Len(last.result) = Len(store)
        /\ \A i \in 1..Len(store) :
              Cardinality({j \in 1..Len(last.result) : last.result[j] = store[i]}) = 1
        /\ \A i \in 1..(Len(last.result) - 1) :
              last.result[i].created_at >= last.result[i + 1].created_at

\* getTasks returned two tasks, the later-created one first
C9_Witness ==
    /\ last.op = "getTasks"
    /\ Len(last.result) = 2
    /\ last.result[1].created_at > last.result[2].created_at
    /\ last.result[1].id = 2

\* position of the row with this id in the table (insertion order)
InsertionIndex(st, id) == CHOOSE i \in 1..Len(st) : st[i].id = id

\* C10 as stated: tasks with the same created_at are returned by getTasks in
\* insertion order relative to each other.
C10_TiesInInsertionOrder ==
    last.op = "getTasks" =>
        \A i, j \in 1..Len(last.result) :
            (i < j /\ last.result[i].created_at = last.result[j].created_at) =>
                InsertionIndex(store, last.result[i].id)
                    < InsertionIndex(store, last.result[j].id)

\* C10 amended: tasks with the same created_at are each returned exactly once
\* by getTasks; their order relative to each other is whatever the store
\* produces, insertion order or not.
C10_TiesAllReturned ==
    last.op = "getTasks" =>
        \A a, b \in 1..Len(store) :
            (a /= b /\ store[a].created_at = store[b].created_at) =>
                /\ Cardinality({j \in 1..Len(last.result) :
                                    last.result[j].id = store[a].id}) = 1
                /\ Cardinality({j \in 1..Len(last.result) :
                                    last.result[j].id = store[b].id}) = 1

\* getTasks returned two tasks with the same created_at, the one inserted
\* second first
C10_Witness ==
    /\ last.op = "getTasks"
    /\ Len(last.result) = 2
    /\ last.result[1].created_at = last.result[2].created_at
    /\ last.result[1].id > last.result[2].id

\* C11: createTask with {title, description} persists and returns a task with
\* the given title, the given description (text or null), completed = false
\* and created_at = updated_at, and the getTask that follows on the returned
\* id yields that same record.
C11_CreateTask ==
    [][/\ Called("createTask") =>
            /\ last'.outcome = "ok"
            /\ Len(last'.result) = 1
            /\ last'.result[1].title = last'.input.title
            /\ last'.result[1].description = last'.input.description
            /\ last'.result[1].completed = FALSE
            /\ last'.result[1].created_at = last'.result[1].updated_at
            /\ Len(store') = Len(store) + 1
            /\ store'[Len(store')] = last'.result[1]
       /\ (last.op = "createTask" /\ Called("getTask")
              /\ last'.input.id = last.result[1].id) =>
            /\ last'.outcome = "ok"
            /\ last'.result = last.result]_vars

\* getTask returned the second task as createTask had just stored it, with a
\* text description, while the first task had been completed
C11_Witness ==
    /\ last.op = "getTask"
    /\ last.outcome = "ok"
    /\ last.input.id = 2
    /\ last.result[1].description /= Null
    /\ last.result[1].completed = FALSE
    /\ last.result[1].created_at = last.result[1].updated_at
    /\ last.result[1].created_at = now
    /\ store[1].completed = TRUE

\* C12: ids are unique: no two stored tasks share an id, every id createTask
\* returns is greater than 0 and differs from the id every other createTask
\* call returned, and no operation changes the id of a stored task.
C12_IdsUnique ==
    [][/\ \A i, j \in 1..Len(store') : i /= j => store'[i].id /= store'[j].id
       /\ Called("createTask") =>
            /\ last'.result[1].id > 0
            /\ last'.result[1].id \notin StoredIds(written)
       /\ \A i \in 1..Len(store) :
            i <= Len(store') /\ store'[i].id = store[i].id]_vars

\* the second createTask returned id 2 after the first task had been updated
\* at a later instant
C12_Witness ==
    /\ last.op = "createTask"
    /\ last.result[1].id = 2
    /\ Len(store) = 2
    /\ store[1].updated_at > store[1].created_at
    /\ store[1].id = 1

C14_CreatedAtImmutable ==
    [][/\ \A i \in 1..Len(store) :
            i <= Len(store') /\ store'[i].created_at = store[i].created_at
       /\ (Called("updateTask") /\ last'.outcome = "ok") =>
            /\ Len(WhereId(store, last'.input.id)) = 1
            /\ last'.result[1].created_at
                  = RowOf(store, last'.input.id).created_at]_vars

\* an update at a later instant than the insert changed the title of one of
\* two stored tasks
C14_Witness ==
    /\ UpdateOk
    /\ Len(store) = 2
    /\ last.input.title /= None
    /\ last.result[1].updated_at > last.result[1].created_at
    /\ Len(before) = 1
    /\ before[1].title /= last.result[1].title

\* C15: updated_at never decreases: from one state to the next the updated_at
\* of every stored task stays or grows, whatever call is made.
C15_UpdatedAtMonotone ==
    [][\A i \in 1..Len(store) :
          i <= Len(store') /\ store'[i].updated_at >= store[i].updated_at]_vars

\* both stored tasks have been updated after their insert, and a further
\* update of task 2 within the same instant left its updated_at equal
C15_Witness ==
    /\ UpdateOk
    /\ last.input.id = 2
    /\ Len(store) = 2
    /\ store[1].updated_at > store[1].created_at
    /\ store[2].updated_at > store[2].created_at
    /\ Len(before) = 1
    /\ before[1].updated_at = store[2].updated_at

\* C16: a handler touches at most one row: createTask adds one row and changes
\* no existing one, updateTask changes only the row whose id is the input id,
\* getTask and getTasks leave every row as it is.
C16_OneRowPerCall ==
    [][/\ Called("createTask") =>
            /\ Len(store') = Len(store) + 1
            /\ SubSeq(store', 1, Len(store)) = store
       /\ Called("updateTask") =>
            /\ Len(store') = Len(store)
            /\ \A i \in 1..Len(store) :
                  store[i].id /= last'.input.id => store'[i] = store[i]
       /\ (Called("getTask") \/ Called("getTasks")) => store' = store]_vars

\* an update completed task 1 at a later instant while task 2 kept its
\* fields and its updated_at
C16_Witness ==
    /\ UpdateOk
    /\ last.input.id = 1
    /\ last.input.completed = Some(TRUE)
    /\ Len(store) = 2
    /\ store[1].completed = TRUE
    /\ store[2].completed = FALSE
    /\ store[2].updated_at < store[1].updated_at

\* C17: in every reachable state every stored task has a non-empty title;
\* neither createTask nor updateTask leaves an empty title in the store.
C17_TitleNonEmpty ==
    \A i \in 1..Len(store) : store[i].title /= ""

\* C18: completed has no transition restriction: for a stored task, whatever
\* its completed is, updateTask with completed = true or completed = false
\* succeeds and stores and returns the supplied value.
C18_CompletedAnyToAny ==
    [][(/\ Called("updateTask")
        /\ last'.input.id \in StoredIds(store)
        /\ last'.input.completed /= None) =>
          /\ last'.outcome = "ok"
          /\ Len(WhereId(store', last'.input.id)) = 1
          /\ RowOf(store', last'.input.id).completed = last'.input.completed[1]
          /\ last'.result[1].completed = last'.input.completed[1]]_vars

\* a completed task that had been updated before was set back to not completed
C18_Witness ==
    /\ UpdateOk
    /\ Len(before) = 1
    /\ before[1].completed = TRUE
    /\ last.input.completed = Some(FALSE)
    /\ RowOf(store, last.input.id).completed = FALSE
    /\ Len(WhereId(written, last.input.id)) = 1
    /\ before[1].updated_at > before[1].created_at

Visible(row) ==
    [title |-> row.title, description |-> row.description,
     completed |-> row.completed]

\* the two inputs have no supplied field in common
DisjointFields(a, b) ==
    /\ a.title = None \/ b.title = None
    /\ a.description = None \/ b.description = None
    /\ a.completed = None \/ b.completed = None

\* the task under id after updateTask(first) and then updateTask(second)
AfterBoth(st, first, second, t) ==
    RowOf(updateTask(updateTask(st, first, t).store, second, t).store, first.id)

\* C21: two updateTask calls on the same stored task, the first being the
\* call that has just returned and the second any call that may follow it:
\* every field the call applied last supplies is stored with its value, every
\* field only the earlier call supplies keeps that call's value, a field
\* neither supplies keeps the value from before both, and when the two supply
\* disjoint fields, title, description and completed end up the same as if
\* the two had been applied in the other order.
C21_DisjointUpdatesCommute ==
    UpdateOk =>
        \A b \in UpdateInputs :
            b.id = last.input.id =>
                LET a  == last.input
                    ab == RowOf(updateTask(store, b, now).store, a.id)
                    ba == AfterBoth(before, b, a, now)
                IN  /\ b.title /= None => ab.title = b.title[1]
                    /\ b.description /= None => ab.description = b.description[1]
                    /\ b.completed /= None => ab.completed = b.completed[1]
                    /\ (a.title /= None /\ b.title = None) =>
                           ab.title = a.title[1]
                    /\ (a.description /= None /\ b.description = None) =>
                           ab.description = a.description[1]
                    /\ (a.completed /= None /\ b.completed = None) =>
                           ab.completed = a.completed[1]
                    /\ (a.title = None /\ b.title = None) =>
                           ab.title = before[1].title
                    /\ DisjointFields(a, b) => Visible(ab) = Visible(ba)

\* an update that supplied only completed followed one that had supplied the
\* title: the task holds the title of the earlier call and the completed of
\* this one
C21_Witness ==
    /\ UpdateOk
    /\ last.input.title = None
    /\ last.input.description = None
    /\ last.input.completed = Some(TRUE)
    /\ Len(before) = 1
    /\ before[1].title = ""
    /\ before[1].completed = FALSE
    /\ RowOf(store, last.input.id).title = ""
    /\ RowOf(store, last.input.id).completed = TRUE

\* C22: in the client, whenever no call is in flight, every task of the local
\* list is stored under its id with the same title, description and
\* completed.
C22_LocalMatchesStore ==
    pending = <<>> =>
        \A i \in 1..Len(tasks) :
            /\ tasks[i].id \in StoredIds(store)
            /\ Visible(tasks[i]) = Visible(RowOf(store, tasks[i].id))

\* C23: in the client, the local list changes only in the continuation of a
\* call that was served and resolved; a step in which a call rejects leaves
\* the list as it was; and a handler that returns at its title test (a blank
\* or whitespace-only title) sends no call and changes neither list nor store.
C23_ListChangesOnSuccessOnly ==
    [][/\ tasks' /= tasks =>
             /\ event' = "then"
             /\ \E i \in 1..Len(pending) :
                    /\ pending[i].state = "resolved"
                    /\ pending' = RemoveAt(pending, i)
       /\ event' = "catch" =>
             /\ tasks' = tasks
             /\ Len(pending') = Len(pending) - 1
       /\ event' = "returned" =>
             /\ tasks' = tasks
             /\ pending' = pending
             /\ store' = store]_vars

\* a call was rejected while the edit dialog was open with a new title typed
\* in: none is in flight any more, list and store still hold the old title
C23_Witness ==
    /\ event = "catch"
    /\ pending = <<>>
    /\ editingTask /= None
    /\ editTaskForm.title = "b"
    /\ Len(tasks) = 1
    /\ tasks[1].title = "a"
    /\ store[1].title = "a"

\* C24: the filter is a projection of the local list: a step that changes the
\* filter changes neither the list nor the store; under 'all' every local
\* task is shown, the tasks shown under 'active' and under 'completed' have
\* no task in common and together are all the tasks of the list, and
\* activeCount + completedCount is the length of the list, in every state.
C24_FilterIsProjection ==
    /\ [](/\ filteredTasks(tasks, "all") = tasks
          /\ \A i \in 1..Len(tasks) :
                (\E j \in 1..Len(filteredTasks(tasks, "active")) :
                     filteredTasks(tasks, "active")[j] = tasks[i])
                  /= (\E j \in 1..Len(filteredTasks(tasks, "completed")) :
                        filteredTasks(tasks, "completed")[j] = tasks[i])
          /\ Len(filteredTasks(tasks, "active"))
               + Len(filteredTasks(tasks, "completed")) = Len(tasks)
          /\ activeCount(tasks) + completedCount(tasks) = Len(tasks)
          /\ activeCount(tasks) = Len(filteredTasks(tasks, "active"))
          /\ completedCount(tasks) = Len(filteredTasks(tasks, "completed")))
    /\ [][filter' /= filter => (tasks' = tasks /\ store' = store)]_vars

\* the filter was set to 'completed' over a list of one completed and one
\* active task: one task is shown
C24_Witness ==
    /\ filter = "completed"
    /\ Len(tasks) = 2
    /\ activeCount(tasks) = 1
    /\ Len(filteredTasks(tasks, filter)) = 1
    /\ pending = <<>>

====
